---- MODULE Spec2Model ----
(***************************************************************************)
(* Model of skills/middleware.py: the tool-call gate of                    *)
(* NoSkillsMiddleware and the skills prompt injection of SkillsMiddleware. *)
(* Strings are sequences of string tokens, so that concatenation, joining  *)
(* and formatting are computed and not assumed.                            *)
(***************************************************************************)
EXTENDS Naturals, Sequences, FiniteSets, TLC

VARIABLES
    DONE_WRITE_FILE,   \* [Inst -> BOOLEAN], NoSkillsMiddleware.DONE_WRITE_FILE
    call_count,        \* [Inst -> Nat], NoSkillsMiddleware.call_count
    last,              \* the most recent hook invocation of a NoSkillsMiddleware
    log,               \* history: the wrap_model_call invocations, oldest first
    inst_seen,         \* history: the handler gave this instance a terminal first call
    sess_seen,         \* history: the handler gave this session a terminal first call
    fs,                \* the two skills directories on disk
    project_skills_dir,\* SkillsMiddleware.project_skills_dir: None or a path
    state,             \* [Sess -> the session state's skills_metadata entry, or None]
    skills_call_count, \* SkillsMiddleware.call_count
    slast              \* the most recent hook invocation of the SkillsMiddleware

gate_vars == <<DONE_WRITE_FILE, call_count, last, log, inst_seen, sess_seen>>
skills_vars == <<fs, project_skills_dir, state, skills_call_count, slast>>
vars == <<gate_vars, skills_vars>>

----------------------------------------------------------------------------
(* Bounds *)

MaxCalls == 4
MaxModelCalls == 2

(* The two tool names the gate distinguishes: the terminal one and another. *)
TerminalTool == "write_file"
ToolNames == {"read_file", "write_file"}

(* A response proposes at most as many tool calls as there are tool names. *)
MaxToolCalls == Cardinality(ToolNames)

(* The NoSkillsMiddleware instances the test program constructs (two of them) *)
Inst == {"requirement-extractor", "usecase-extractor"}
Sess == {"s1", "s2"}
Contents == {"text-1", "text-2"}

----------------------------------------------------------------------------
(* Values *)

SeqsUpTo(S, n) == UNION {[1..k -> S] : k \in 0..n}

ToolCall(n) == [name |-> n]
ToolCallLists == SeqsUpTo({ToolCall(n) : n \in ToolNames}, MaxToolCalls)

(* An AIMessage: it has a tool_calls list. *)
AIMessage(c, tcs) == [has_tool_calls |-> TRUE, tool_calls |-> tcs, content |-> c]
(* A message of a class with no tool_calls attribute. *)
PlainMessage(c) == [has_tool_calls |-> FALSE, tool_calls |-> <<>>, content |-> c]

(* ModelResponse: result is a list of messages. *)
ModelResponse(msgs) == [result |-> msgs]

WellShaped == {ModelResponse(<<AIMessage(c, tcs)>>) : c \in Contents, tcs \in ToolCallLists}
IllShaped == {ModelResponse(<<>>)} \cup {ModelResponse(<<PlainMessage(c)>>) : c \in Contents}
Responses == WellShaped \cup IllShaped

(* An optional string: <<>> is None, <<s>> is the string s (a token sequence). *)
None == <<>>
Some(s) == <<s>>
Truthy(opt) == opt # None /\ opt[1] # <<>>

GateRequests == {[system_prompt |-> None], [system_prompt |-> Some(<<"extract">>)]}

Names(tcs) == [k \in 1..Len(tcs) |-> tcs[k].name]

----------------------------------------------------------------------------
(* NoSkillsMiddleware.wrap_model_call, after the handler returned response *)

HasShape(response) == Len(response.result) >= 1 /\ response.result[1].has_tool_calls

(* Variant: the whole message is reset, its content with its tool calls. *)
ClearToolCalls_DropContent(response) ==
    [response EXCEPT !.result[1].has_tool_calls = TRUE, !.result[1].tool_calls = <<>>,
                     !.result[1].content = ""]

(* response.result[0].tool_calls = [] : the attribute is set on the message *)
ClearToolCalls(response) ==
    [response EXCEPT !.result[1].has_tool_calls = TRUE, !.result[1].tool_calls = <<>>]

(* Variant: any tool call of the list is compared, not the first alone. *)
AnyIsTerminal(tcs) == \E k \in 1..Len(tcs) : tcs[k].name = TerminalTool

(* tool_calls[0].get("name") == "write_file" *)
FirstIsTerminal(tcs) == tcs # <<>> /\ tcs[1].name = TerminalTool

(* if self.DONE_WRITE_FILE == True: response.result[0].tool_calls = [] *)
GateStrip(done, response) ==
    IF ~done THEN [outcome |-> "ok", response |-> response]
    ELSE IF Len(response.result) = 0 THEN [outcome |-> "IndexError", response |-> response]
    ELSE [outcome |-> "ok", response |-> ClearToolCalls(response)]

(* Variant: the flag is assigned the comparison's value on every call. *)
GateObserve_Assign(done, response) ==
    IF Len(response.result) = 0 THEN [outcome |-> "IndexError", done |-> done]
    ELSE IF ~response.result[1].has_tool_calls THEN [outcome |-> "AttributeError", done |-> done]
    ELSE [outcome |-> "returned", done |-> FirstIsTerminal(response.result[1].tool_calls)]

(* if response.result[0].tool_calls: if ...[0].get("name") == "write_file": flag = True *)
GateObserve(done, response) ==
    IF Len(response.result) = 0 THEN [outcome |-> "IndexError", done |-> done]
    ELSE IF ~response.result[1].has_tool_calls THEN [outcome |-> "AttributeError", done |-> done]
    ELSE [outcome |-> "returned",
          done |-> IF FirstIsTerminal(response.result[1].tool_calls) THEN TRUE ELSE done]

(* Variant: the flag is set before the strip, so the triggering call is stripped too. *)
GateResult_ObserveFirst(done, response) ==
    LET o == GateObserve(done, response) IN
    IF o.outcome # "returned" THEN [outcome |-> o.outcome, response |-> response, done |-> done]
    ELSE LET s == GateStrip(o.done, response) IN
         [outcome |-> "returned", response |-> s.response, done |-> o.done]

(* The two statements in order; an exception of the first skips the second. *)
GateResult(done, response) ==
    LET s == GateStrip(done, response) IN
    IF s.outcome # "ok" THEN [outcome |-> s.outcome, response |-> s.response, done |-> done]
    ELSE LET o == GateObserve(done, s.response) IN
         [outcome |-> o.outcome, response |-> s.response, done |-> o.done]

(* Variant: the flag is an attribute of the class, shared by its instances. *)
SetFlag_ClassAttribute(flags, inst, value) == [i \in DOMAIN flags |-> value]

(* self.DONE_WRITE_FILE = ... : an attribute of this instance alone *)
SetFlag(flags, inst, value) == [flags EXCEPT ![inst] = value]

----------------------------------------------------------------------------
(* Strings: a string is a sequence of tokens; an f-string concatenates. *)

RECURSIVE Join(_, _)
(* sep.join(lines) *)
Join(sep, lines) ==
    IF lines = <<>> THEN <<>>
    ELSE IF Len(lines) = 1 THEN lines[1]
    ELSE lines[1] \o sep \o Join(sep, Tail(lines))

----------------------------------------------------------------------------
(* The skills directories and list_skills (skills/load.py) *)

SkillNames == <<"A", "B">>
USER_SKILLS_DIR == <<"/repo/agent/skills">>
PROJECT_SKILLS_DIR == <<"/repo/.deepagents/skills">>
assistant_id == "agent"

(* The subdirectories of a root that hold a well-formed descriptor, in scan *)
(* (lexicographic) order.                                                    *)
NameSeqs == {<<>>, <<SkillNames[1]>>, <<SkillNames[2]>>, SkillNames}
Dirs == {[status |-> "ok", names |-> ns] : ns \in NameSeqs}
            \cup {[status |-> st, names |-> <<>>] : st \in {"missing", "unreadable"}}
NoDir == [status |-> "missing", names |-> <<>>]

Description(source, name) ==
    IF name = "A" THEN (IF source = "user" THEN "desc A" ELSE "desc A2") ELSE "desc " \o name

SkillMetadata(name, source, root) ==
    [name |-> name, description |-> Description(source, name),
     path |-> root \o <<"/", name, "/SKILL.md">>, source |-> source]

(* One tier: a root that is missing or unreadable contributes nothing. *)
TierRecords(dir, source, root) ==
    IF dir.status # "ok" THEN <<>>
    ELSE [k \in 1..Len(dir.names) |-> SkillMetadata(dir.names[k], source, root)]

RECURSIVE MergeTiers(_, _)
(* A project record replaces the record of the same name in place, and is *)
(* appended when no record has its name.                                   *)
MergeTiers(catalog, records) ==
    IF records = <<>> THEN catalog
    ELSE LET r == Head(records)
             merged == IF \E k \in 1..Len(catalog) : catalog[k].name = r.name
                       THEN [k \in 1..Len(catalog) |->
                                IF catalog[k].name = r.name THEN r ELSE catalog[k]]
                       ELSE Append(catalog, r)
         IN MergeTiers(merged, Tail(records))

list_skills(disk, project_dir) ==
    MergeTiers(TierRecords(disk.user, "user", USER_SKILLS_DIR),
               IF project_dir = None THEN <<>>
               ELSE TierRecords(disk.project, "project", project_dir[1]))

(* The scan found no root it could read. *)
ScanFailed(disk, project_dir) ==
    /\ disk.user.status # "ok"
    /\ project_dir # None => disk.project.status # "ok"

----------------------------------------------------------------------------
(* SkillsMiddleware: rendering *)

user_skills_display == <<"~/.deepagents/", assistant_id, "/skills">>

(* The back-quote character of the templates, as a token of its own. *)
BQ == "<backquote>"

T_HEAD == <<"\n\n## Skills System\n\nYou have access to a skills library [...]\n\n">>
T_MID == <<"\n\n**Available Skills:**\n\n">>
T_TAIL == <<"\n\n**How to Use Skills (Progressive Disclosure):** [...]\n">>

(* SKILLS_SYSTEM_PROMPT.format(skills_locations=..., skills_list=...) *)
FormatTemplate(skills_locations, skills_list) ==
    T_HEAD \o skills_locations \o T_MID \o skills_list \o T_TAIL

_format_skills_locations(project_dir) ==
    LET user == <<"**User Skills**: ", BQ>> \o user_skills_display \o <<BQ>>
        project == <<"**Project Skills**: ", BQ>> \o project_dir[1]
                       \o <<BQ, " (overrides user skills)">>
    IN Join(<<"\n">>, IF project_dir # None THEN <<user, project>> ELSE <<user>>)

(* Variant: the source filter is left out. *)
SelectSource_All(skills, source) == skills

SelectSource(skills, source) == SelectSeq(skills, LAMBDA s : s.source = source)

RECURSIVE SkillLines(_)
(* The two lines of each skill; the arrow character is written "->". *)
SkillLines(skills) ==
    IF skills = <<>> THEN <<>>
    ELSE << <<"- **", skills[1].name, "**: ", skills[1].description>>,
            <<"  -> Read ", BQ>> \o skills[1].path \o <<BQ, " for full instructions">> >>
         \o SkillLines(Tail(skills))

(* Variant: the project group is rendered before the user group. *)
_format_skills_list_ProjectFirst(skills, project_dir) ==
    IF skills = <<>>
    THEN LET locations == << user_skills_display \o <<"/">> >>
                              \o (IF project_dir # None THEN << project_dir[1] \o <<"/">> >>
                                  ELSE <<>>)
         IN <<"(No skills available yet. You can create skills in ">>
                \o Join(<<" or ">>, locations) \o <<")">>
    ELSE LET user_skills == SelectSource(skills, "user")
             project_skills == SelectSource(skills, "project")
             lines == (IF project_skills # <<>>
                       THEN << <<"**Project Skills:**">> >> \o SkillLines(project_skills)
                                \o << <<>> >>
                       ELSE <<>>)
                      \o (IF user_skills # <<>>
                          THEN << <<"**User Skills:**">> >> \o SkillLines(user_skills)
                          ELSE <<>>)
         IN Join(<<"\n">>, lines)

_format_skills_list(skills, project_dir) ==
    IF skills = <<>>
    THEN LET locations == << user_skills_display \o <<"/">> >>
                              \o (IF project_dir # None THEN << project_dir[1] \o <<"/">> >>
                                  ELSE <<>>)
         IN <<"(No skills available yet. You can create skills in ">>
                \o Join(<<" or ">>, locations) \o <<")">>
    ELSE LET user_skills == SelectSource(skills, "user")
             project_skills == SelectSource(skills, "project")
             lines == (IF user_skills # <<>>
                       THEN << <<"**User Skills:**">> >> \o SkillLines(user_skills) \o << <<>> >>
                       ELSE <<>>)
                      \o (IF project_skills # <<>>
                          THEN << <<"**Project Skills:**">> >> \o SkillLines(project_skills)
                          ELSE <<>>)
         IN Join(<<"\n">>, lines)

SkillsSection(skills, project_dir) ==
    FormatTemplate(_format_skills_locations(project_dir),
                   _format_skills_list(skills, project_dir))

(* Variant: the section replaces the prompt. *)
ComposePrompt_Replace(system_prompt, skills_section) == skills_section

(* request.system_prompt + "\n\n" + skills_section, or the section alone *)
ComposePrompt(system_prompt, skills_section) ==
    IF Truthy(system_prompt) THEN system_prompt[1] \o <<"\n\n">> \o skills_section
    ELSE skills_section

(* request.state.get("skills_metadata", []) *)
StateGet(entry) == IF entry = None THEN <<>> ELSE entry[1]

SkillsRequests ==
    {[system_prompt |-> None], [system_prompt |-> Some(<<>>)],
     [system_prompt |-> Some(<<"You extract architecture views.">>)],
     [system_prompt |-> Some(<<"Rules:", "\n\n", "be brief">>)]}
SkillsResponses ==
    {ModelResponse(<<AIMessage("text-1", <<>>)>>),
     ModelResponse(<<AIMessage("text-2", <<ToolCall("read_file")>>)>>)}

(* No earlier model call to compare with. *)
NoPrev ==
    [valid |-> FALSE, request |-> [system_prompt |-> None], entry |-> None,
     handler_request |-> [system_prompt |-> None]]

NoSkillsCall ==
    [hook |-> "none", sess |-> "s1",
     request |-> [system_prompt |-> None], request_after |-> [system_prompt |-> None],
     handler_request |-> [system_prompt |-> None],
     handler_calls |-> 0, skills_metadata |-> <<>>,
     response |-> ModelResponse(<<>>), returned |-> ModelResponse(<<>>),
     scans |-> 0, scan_failed |-> FALSE, entry_before |-> None, count_before |-> 0,
     prev |-> NoPrev, outcome |-> "none"]

(* The model call before this one, when the last hook was a model call. *)
PrevCall(call) ==
    IF call.hook = "wrap_model_call"
    THEN [valid |-> TRUE, request |-> call.request, entry |-> call.entry_before,
          handler_request |-> call.handler_request]
    ELSE NoPrev

----------------------------------------------------------------------------
(* Construction *)

NoCall ==
    [hook |-> "none", inst |-> "requirement-extractor", sess |-> "s1",
     request |-> [system_prompt |-> None], handler_request |-> [system_prompt |-> None],
     handler_calls |-> 0,
     response |-> ModelResponse(<<>>), returned |-> ModelResponse(<<>>),
     outcome |-> "none", done_before |-> FALSE, flags_before |-> [i \in Inst |-> FALSE],
     inst_seen_before |-> FALSE, sess_seen_before |-> FALSE]

(* NoSkillsMiddleware.__init__ *)
InitGate ==
    /\ DONE_WRITE_FILE = [i \in Inst |-> FALSE]
    /\ call_count = [i \in Inst |-> 0]
    /\ last = NoCall
    /\ log = <<>>
    /\ inst_seen = [i \in Inst |-> FALSE]
    /\ sess_seen = [s \in Sess |-> FALSE]

(* SkillsMiddleware.__init__; no session has run before_agent yet *)
InitMiddleware ==
    /\ state = [s \in Sess |-> None]
    /\ skills_call_count = 0
    /\ slast = NoSkillsCall

(* The test program: project_skills_dir=None *)
Init ==
    /\ InitGate
    /\ InitMiddleware
    /\ project_skills_dir = None
    /\ fs = [user |-> NoDir, project |-> NoDir]

(* Any configuration, over any content of the configured directories *)
InitSkills ==
    /\ InitGate
    /\ InitMiddleware
    /\ project_skills_dir \in {None, Some(PROJECT_SKILLS_DIR)}
    /\ fs \in {[user |-> u, project |-> p] : u \in Dirs,
                   p \in IF project_skills_dir = None THEN {NoDir} ELSE Dirs}

(* Variant: once the gate is closed the handler is not called any more. *)
NoSkills_wrap_model_call_SkipWhenClosed(inst, sess, request, response) ==
    LET r == GateResult(DONE_WRITE_FILE[inst], response)
        skip == DONE_WRITE_FILE[inst] IN
    /\ call_count[inst] < MaxCalls
    /\ call_count' = [call_count EXCEPT ![inst] = @ + 1]
    /\ DONE_WRITE_FILE' = IF skip THEN DONE_WRITE_FILE ELSE SetFlag(DONE_WRITE_FILE, inst, r.done)
    /\ last' = [hook |-> "wrap_model_call", inst |-> inst, sess |-> sess,
                request |-> request, handler_request |-> request,
                handler_calls |-> IF skip THEN 0 ELSE 1,
                response |-> response,
                returned |-> IF skip THEN ModelResponse(<<AIMessage("", <<>>)>>) ELSE r.response,
                outcome |-> IF skip THEN "returned" ELSE r.outcome,
                done_before |-> DONE_WRITE_FILE[inst], flags_before |-> DONE_WRITE_FILE,
                inst_seen_before |-> inst_seen[inst], sess_seen_before |-> sess_seen[sess]]

(* wrap_model_call(request, handler) on instance inst, in session sess, when *)
(* handler(request) returns response.                                      *)
NoSkills_wrap_model_call(inst, sess, request, response) ==
    LET r == GateResult(DONE_WRITE_FILE[inst], response) IN
    /\ call_count[inst] < MaxCalls
    /\ call_count' = [call_count EXCEPT ![inst] = @ + 1]
    /\ DONE_WRITE_FILE' = SetFlag(DONE_WRITE_FILE, inst, r.done)
    /\ last' = [hook |-> "wrap_model_call", inst |-> inst, sess |-> sess,
                request |-> request, handler_request |-> request, handler_calls |-> 1,
                response |-> response, returned |-> r.response, outcome |-> r.outcome,
                done_before |-> DONE_WRITE_FILE[inst], flags_before |-> DONE_WRITE_FILE,
                inst_seen_before |-> inst_seen[inst], sess_seen_before |-> sess_seen[sess]]

(* before_agent, before_model, after_model, after_agent and wrap_tool_call *)
(* log and delegate; none of them assigns an attribute of the instance.    *)
OtherHooks == {"before_agent", "before_model", "after_model", "wrap_tool_call", "after_agent"}

(* Variant: before_agent opens the gate again for the new run. *)
NoSkills_hook_ResetOnBeforeAgent(inst, sess, h) ==
    /\ last' = [NoCall EXCEPT !.hook = h, !.inst = inst, !.sess = sess,
                              !.done_before = DONE_WRITE_FILE[inst],
                              !.flags_before = DONE_WRITE_FILE,
                              !.inst_seen_before = inst_seen[inst],
                              !.sess_seen_before = sess_seen[sess]]
    /\ DONE_WRITE_FILE' = IF h = "before_agent" THEN SetFlag(DONE_WRITE_FILE, inst, FALSE)
                          ELSE DONE_WRITE_FILE
    /\ UNCHANGED call_count

NoSkills_hook(inst, sess, h) ==
    /\ last' = [NoCall EXCEPT !.hook = h, !.inst = inst, !.sess = sess,
                              !.done_before = DONE_WRITE_FILE[inst],
                              !.flags_before = DONE_WRITE_FILE,
                              !.inst_seen_before = inst_seen[inst],
                              !.sess_seen_before = sess_seen[sess]]
    /\ UNCHANGED <<DONE_WRITE_FILE, call_count>>

----------------------------------------------------------------------------
(* One gated sub-agent, with the history of its model calls *)

LogEntry(response, r) ==
    [shaped |-> HasShape(response),
     proposed |-> IF HasShape(response) THEN Names(response.result[1].tool_calls) ELSE <<>>,
     outcome |-> r.outcome,
     visible |-> IF HasShape(r.response) THEN Names(r.response.result[1].tool_calls) ELSE <<>>]

GateCall ==
    \E request \in GateRequests, response \in Responses :
        /\ NoSkills_wrap_model_call("requirement-extractor", "s1", request, response)
        /\ log' = Append(log, LogEntry(response,
                      GateResult(DONE_WRITE_FILE["requirement-extractor"], response)))
        /\ UNCHANGED <<inst_seen, sess_seen>>
        /\ UNCHANGED skills_vars

GateNext == GateCall

SpecGate == Init /\ [][GateNext]_vars

----------------------------------------------------------------------------
(* Several sub-agent instances used by several sessions *)

Proposes(response) == HasShape(response) /\ FirstIsTerminal(response.result[1].tool_calls)

AgentCall ==
    \E inst \in Inst, sess \in Sess, request \in GateRequests, response \in Responses :
        /\ NoSkills_wrap_model_call(inst, sess, request, response)
        /\ inst_seen' = [inst_seen EXCEPT ![inst] = @ \/ Proposes(response)]
        /\ sess_seen' = [sess_seen EXCEPT ![sess] = @ \/ Proposes(response)]
        /\ UNCHANGED log
        /\ UNCHANGED skills_vars

AgentHook ==
    \E inst \in Inst, sess \in Sess, h \in OtherHooks :
        /\ NoSkills_hook(inst, sess, h)
        /\ UNCHANGED <<log, inst_seen, sess_seen>>
        /\ UNCHANGED skills_vars

AgentsNext == AgentCall \/ AgentHook

SpecAgents == Init /\ [][AgentsNext]_vars

----------------------------------------------------------------------------
(* SkillsMiddleware hooks *)

(* Variant: an empty scan result returns no state update. *)
Skills_before_agent_NoUpdateWhenEmpty(sess) ==
    LET skills == list_skills(fs, project_skills_dir) IN
    /\ state' = IF skills = <<>> THEN state ELSE [state EXCEPT ![sess] = Some(skills)]
    /\ slast' = [NoSkillsCall EXCEPT !.hook = "before_agent", !.sess = sess, !.scans = 1,
                                     !.scan_failed = ScanFailed(fs, project_skills_dir),
                                     !.entry_before = state[sess],
                                     !.count_before = skills_call_count,
                                     !.outcome = "returned"]
    /\ UNCHANGED <<fs, project_skills_dir, skills_call_count>>

(* Variant: the project directory is not passed to list_skills. *)
Skills_before_agent_UserOnly(sess) ==
    LET skills == list_skills(fs, None) IN
    /\ state' = [state EXCEPT ![sess] = Some(skills)]
    /\ slast' = [NoSkillsCall EXCEPT !.hook = "before_agent", !.sess = sess, !.scans = 1,
                                     !.scan_failed = ScanFailed(fs, project_skills_dir),
                                     !.entry_before = state[sess],
                                     !.count_before = skills_call_count,
                                     !.outcome = "returned"]
    /\ UNCHANGED <<fs, project_skills_dir, skills_call_count>>

(* Variant: the two directories are passed in each other's place. *)
Skills_before_agent_Swapped(sess) ==
    LET skills == MergeTiers(IF project_skills_dir = None THEN <<>>
                             ELSE TierRecords(fs.project, "user", project_skills_dir[1]),
                             TierRecords(fs.user, "project", USER_SKILLS_DIR)) IN
    /\ state' = [state EXCEPT ![sess] = Some(skills)]
    /\ slast' = [NoSkillsCall EXCEPT !.hook = "before_agent", !.sess = sess, !.scans = 1,
                                     !.scan_failed = ScanFailed(fs, project_skills_dir),
                                     !.entry_before = state[sess],
                                     !.count_before = skills_call_count,
                                     !.outcome = "returned"]
    /\ UNCHANGED <<fs, project_skills_dir, skills_call_count>>

(* before_agent: skills = list_skills(...); return SkillsStateUpdate(skills) *)
Skills_before_agent(sess) ==
    LET skills == list_skills(fs, project_skills_dir) IN
    /\ state' = [state EXCEPT ![sess] = Some(skills)]
    /\ slast' = [NoSkillsCall EXCEPT !.hook = "before_agent", !.sess = sess, !.scans = 1,
                                     !.scan_failed = ScanFailed(fs, project_skills_dir),
                                     !.entry_before = state[sess],
                                     !.count_before = skills_call_count,
                                     !.outcome = "returned"]
    /\ UNCHANGED <<fs, project_skills_dir, skills_call_count>>

(* Variant: the catalog is rebuilt from disk and stored on every model call. *)
Skills_wrap_model_call_Rebuild(sess, request, response) ==
    LET skills_metadata == list_skills(fs, project_skills_dir)
        skills_section == SkillsSection(skills_metadata, project_skills_dir)
        system_prompt == ComposePrompt(request.system_prompt, skills_section)
    IN
    /\ skills_call_count < MaxModelCalls
    /\ skills_call_count' = skills_call_count + 1
    /\ state' = [state EXCEPT ![sess] = Some(skills_metadata)]
    /\ slast' = [hook |-> "wrap_model_call", sess |-> sess, request |-> request,
                 request_after |-> request, count_before |-> skills_call_count,
                 prev |-> PrevCall(slast),
                 handler_request |-> [request EXCEPT !.system_prompt = Some(system_prompt)],
                 handler_calls |-> 1, skills_metadata |-> skills_metadata,
                 response |-> response, returned |-> response,
                 scans |-> 1, scan_failed |-> FALSE, entry_before |-> state[sess],
                 outcome |-> "returned"]
    /\ UNCHANGED <<fs, project_skills_dir>>

(* Variant: the entry is read as request.state["skills_metadata"]. *)
Skills_wrap_model_call_KeyError(sess, request, response) ==
    LET skills_metadata == StateGet(state[sess])
        skills_section == SkillsSection(skills_metadata, project_skills_dir)
        system_prompt == ComposePrompt(request.system_prompt, skills_section)
    IN
    /\ skills_call_count < MaxModelCalls
    /\ skills_call_count' = IF state[sess] = None THEN skills_call_count
                            ELSE skills_call_count + 1
    /\ slast' = IF state[sess] = None
                THEN [NoSkillsCall EXCEPT !.hook = "wrap_model_call", !.sess = sess,
                                          !.request = request, !.request_after = request,
                                          !.count_before = skills_call_count,
                                          !.outcome = "KeyError"]
                ELSE [hook |-> "wrap_model_call", sess |-> sess, request |-> request,
                      request_after |-> request, count_before |-> skills_call_count,
                      prev |-> PrevCall(slast),
                      handler_request |-> [request EXCEPT !.system_prompt = Some(system_prompt)],
                      handler_calls |-> 1, skills_metadata |-> skills_metadata,
                      response |-> response, returned |-> response,
                      scans |-> 0, scan_failed |-> FALSE, entry_before |-> state[sess],
                      outcome |-> "returned"]
    /\ UNCHANGED <<fs, project_skills_dir, state>>

(* Variant: the skills block is added on the first model call only. *)
Skills_wrap_model_call_FirstOnly(sess, request, response) ==
    LET skills_metadata == StateGet(state[sess])
        skills_section == SkillsSection(skills_metadata, project_skills_dir)
        system_prompt == ComposePrompt(request.system_prompt, skills_section)
    IN
    /\ skills_call_count < MaxModelCalls
    /\ skills_call_count' = skills_call_count + 1
    /\ slast' = [hook |-> "wrap_model_call", sess |-> sess, request |-> request,
                 request_after |-> request, count_before |-> skills_call_count,
                 prev |-> PrevCall(slast),
                 handler_request |-> IF skills_call_count = 0
                                     THEN [request EXCEPT !.system_prompt = Some(system_prompt)]
                                     ELSE request,
                 handler_calls |-> 1, skills_metadata |-> skills_metadata,
                 response |-> response, returned |-> response,
                 scans |-> 0, scan_failed |-> FALSE, entry_before |-> state[sess],
                 outcome |-> "returned"]
    /\ UNCHANGED <<fs, project_skills_dir, state>>

(* wrap_model_call(request, handler) in session sess, when the handler *)
(* returns response                                                  *)
Skills_wrap_model_call(sess, request, response) ==
    LET skills_metadata == StateGet(state[sess])
        skills_section == SkillsSection(skills_metadata, project_skills_dir)
        system_prompt == ComposePrompt(request.system_prompt, skills_section)
    IN
    /\ skills_call_count < MaxModelCalls
    /\ skills_call_count' = skills_call_count + 1
    /\ slast' = [hook |-> "wrap_model_call", sess |-> sess, request |-> request,
                 request_after |-> request, count_before |-> skills_call_count,
                 prev |-> PrevCall(slast),
                 handler_request |-> [request EXCEPT !.system_prompt = Some(system_prompt)],
                 handler_calls |-> 1, skills_metadata |-> skills_metadata,
                 response |-> response, returned |-> response,
                 scans |-> 0, scan_failed |-> FALSE, entry_before |-> state[sess],
                 outcome |-> "returned"]
    /\ UNCHANGED <<fs, project_skills_dir, state>>

(* The directories change on disk between hook invocations. *)
FsChange(tier, dir) ==
    /\ tier = "project" => project_skills_dir # None
    /\ fs[tier] # dir
    /\ fs' = [fs EXCEPT ![tier] = dir]
    /\ UNCHANGED <<project_skills_dir, state, skills_call_count, slast>>

SessionStart == Skills_before_agent("s1") /\ UNCHANGED gate_vars

ModelCall ==
    \E request \in SkillsRequests, response \in SkillsResponses :
        Skills_wrap_model_call("s1", request, response) /\ UNCHANGED gate_vars

DiskChange ==
    \E tier \in {"user", "project"}, dir \in Dirs : FsChange(tier, dir) /\ UNCHANGED gate_vars

SkillsNext == SessionStart \/ ModelCall \/ DiskChange

SpecSkills == InitSkills /\ [][SkillsNext]_vars

----------------------------------------------------------------------------
(* The main agent with its SkillsMiddleware and one gated sub-agent *)

SubagentCall ==
    \E request \in GateRequests, response \in Responses :
        /\ NoSkills_wrap_model_call("requirement-extractor", "s1", request, response)
        /\ UNCHANGED <<log, inst_seen, sess_seen>>
        /\ UNCHANGED skills_vars

ProgramNext == SessionStart \/ ModelCall \/ SubagentCall

SpecProgram == Init /\ [][ProgramNext]_vars

----------------------------------------------------------------------------
(* Properties of the gate *)

IsCall == last.hook = "wrap_model_call"
ToolCallsOf(response) == response.result[1].tool_calls

TriggerAt(k) == log[k].shaped /\ log[k].proposed # <<>> /\ log[k].proposed[1] = TerminalTool
FirstTrigger(k) == TriggerAt(k) /\ \A j \in 1..(k - 1) : ~TriggerAt(j)

Proposed == [i \in 1..Len(log) |-> log[i].proposed]
Visible == [i \in 1..Len(log) |-> log[i].visible]

(* C1: when response k is the first whose first proposed tool call is       *)
(* write_file, every response up to and including k is returned with its    *)
(* tool calls as proposed and every later one with none; the proposals      *)
(* [], [read_file], [write_file], [write_file] become                       *)
(* [], [read_file], [write_file], [].                                       *)
C1_GateSequence ==
    /\ \A k \in 1..Len(log) : FirstTrigger(k) =>
           \A i \in 1..Len(log) : log[i].shaped =>
               /\ log[i].outcome = "returned"
               /\ log[i].visible = IF i <= k THEN log[i].proposed ELSE <<>>
    /\ ( /\ \A i \in 1..Len(log) : log[i].shaped
         /\ Proposed = << <<>>, <<"read_file">>, <<"write_file">>, <<"write_file">> >> )
       => Visible = << <<>>, <<"read_file">>, <<"write_file">>, <<>> >>

C1_Witness ==
    /\ Len(log) = 4
    /\ \A i \in 1..Len(log) : log[i].shaped
    /\ Proposed = << <<>>, <<"read_file">>, <<"write_file">>, <<"write_file">> >>
    /\ Visible = << <<>>, <<"read_file">>, <<"write_file">>, <<>> >>

(* C2: the flag of every instance starts false and, over every hook         *)
(* invocation, never goes from true back to false.                          *)
C2_FlagMonotonic ==
    /\ last.hook = "none" => \A i \in Inst : ~DONE_WRITE_FILE[i]
    /\ \A i \in Inst : last.flags_before[i] => DONE_WRITE_FILE[i]

C2_Witness ==
    /\ IsCall
    /\ last.done_before
    /\ HasShape(last.response)
    /\ ~FirstIsTerminal(ToolCallsOf(last.response))
    /\ DONE_WRITE_FILE[last.inst]

(* C3: a wrap_model_call made while the gate is closed returns the          *)
(* handler's response with an empty tool-call list and every other field    *)
(* as the handler produced it.                                              *)
C3_ClosedStripsOnly ==
    (IsCall /\ last.done_before /\ Len(last.response.result) >= 1) =>
        /\ last.outcome = "returned"
        /\ ToolCallsOf(last.returned) = <<>>
        /\ last.returned.result[1].content = last.response.result[1].content
        /\ Len(last.returned.result) = Len(last.response.result)

C3_Witness ==
    /\ IsCall
    /\ last.done_before
    /\ HasShape(last.response)
    /\ Len(ToolCallsOf(last.response)) = MaxToolCalls
    /\ ToolCallsOf(last.returned) = <<>>
    /\ last.returned.result[1].content = "text-2"

RECURSIVE CountTerminal(_)
CountTerminal(names) ==
    IF names = <<>> THEN 0
    ELSE (IF names[1] = TerminalTool THEN 1 ELSE 0) + CountTerminal(Tail(names))

RECURSIVE TerminalPassed(_)
TerminalPassed(entries) ==
    IF entries = <<>> THEN 0
    ELSE (IF entries[1].outcome = "returned" THEN CountTerminal(entries[1].visible) ELSE 0)
         + TerminalPassed(Tail(entries))

(* C4: over the model calls of one gated sub-agent, at most one write_file  *)
(* tool call in total is passed through to the caller.                      *)
C4_AtMostOneTerminal == TerminalPassed(log) <= 1

(* C5: when the handler's response lacks the expected shape, the call       *)
(* returns it unmodified, raises nothing and leaves the flag as it was.     *)
C5_IllShapedPassesThrough ==
    (IsCall /\ ~HasShape(last.response)) =>
        /\ last.outcome = "returned"
        /\ last.returned = last.response
        /\ DONE_WRITE_FILE = last.flags_before

(* C6: the tool calls of a session's response are stripped only when that   *)
(* same session was given a terminal tool call before.                      *)
C6_SessionsIndependent ==
    (IsCall /\ HasShape(last.response) /\ ~last.sess_seen_before) =>
        /\ last.outcome = "returned"
        /\ ToolCallsOf(last.returned) = ToolCallsOf(last.response)

(* C7: a model call on one instance leaves the flag of every other instance *)
(* as it was, and what an instance lets through depends only on whether     *)
(* that instance itself was given a terminal tool call before.              *)
C7_InstancesIndependent ==
    /\ \A j \in Inst : j # last.inst => DONE_WRITE_FILE[j] = last.flags_before[j]
    /\ (IsCall /\ HasShape(last.response)) =>
           /\ last.outcome = "returned"
           /\ ToolCallsOf(last.returned) =
                  IF last.inst_seen_before THEN <<>> ELSE ToolCallsOf(last.response)

C7_Witness ==
    /\ IsCall
    /\ HasShape(last.response)
    /\ \E j \in Inst : j # last.inst /\ DONE_WRITE_FILE[j] /\ inst_seen[j]
    /\ ~last.inst_seen_before
    /\ ToolCallsOf(last.response) # <<>>
    /\ ToolCallsOf(last.returned) = ToolCallsOf(last.response)

----------------------------------------------------------------------------
(* Properties of the skills injection *)

IsModelCall == slast.hook = "wrap_model_call"
PromptIn == slast.request.system_prompt
PromptOut == slast.handler_request.system_prompt

(* C8: the handler's request carries the incoming system prompt verbatim,   *)
(* then a blank line, then the rendered skills block; with no system prompt *)
(* (None or the empty string) it carries the block alone.                   *)
C8_PromptAppended ==
    IsModelCall =>
        LET block == SkillsSection(slast.skills_metadata, project_skills_dir)
            out == PromptOut[1]
        IN /\ slast.handler_calls = 1
           /\ PromptOut # None
           /\ IF Truthy(PromptIn)
              THEN LET n == Len(PromptIn[1]) IN
                   /\ Len(out) = n + 1 + Len(block)
                   /\ SubSeq(out, 1, n) = PromptIn[1]
                   /\ out[n + 1] = "\n\n"
                   /\ SubSeq(out, n + 2, Len(out)) = block
              ELSE out = block

C8_Witness ==
    /\ IsModelCall
    /\ Truthy(PromptIn)
    /\ Len(PromptIn[1]) = 3
    /\ Len(slast.skills_metadata) = 2
    /\ SubSeq(PromptOut[1], 1, 4) = <<"Rules:", "\n\n", "be brief", "\n\n">>

(* C9: a model call leaves the session's skills_metadata entry as it was,   *)
(* scans no directory, and renders the catalog stored in the session state, *)
(* whatever the directories hold by then.                                   *)
C9_CatalogImmutable ==
    IsModelCall =>
        /\ state[slast.sess] = slast.entry_before
        /\ slast.scans = 0
        /\ slast.skills_metadata = StateGet(slast.entry_before)
        /\ PromptOut = Some(ComposePrompt(PromptIn,
               SkillsSection(StateGet(slast.entry_before), project_skills_dir)))

C9_Witness ==
    /\ IsModelCall
    /\ skills_call_count = 2
    /\ slast.entry_before # None
    /\ slast.skills_metadata # <<>>
    /\ slast.skills_metadata # list_skills(fs, project_skills_dir)
    /\ state[slast.sess] = Some(slast.skills_metadata)

(* C10: a before_agent whose scan finds no readable root returns normally,  *)
(* after one scan, with an empty catalog stored for the session, and a      *)
(* model call over that entry reaches the handler with the empty-catalog    *)
(* block.                                                                   *)
C10_FailedScanEmptyCatalog ==
    /\ (slast.hook = "before_agent" /\ slast.scan_failed) =>
           /\ slast.outcome = "returned"
           /\ slast.scans = 1
           /\ state[slast.sess] = Some(<<>>)
    /\ (IsModelCall /\ slast.entry_before = Some(<<>>)) =>
           /\ slast.outcome = "returned"
           /\ slast.handler_calls = 1
           /\ PromptOut = Some(ComposePrompt(PromptIn,
                  FormatTemplate(_format_skills_locations(project_skills_dir),
                                 _format_skills_list(<<>>, project_skills_dir))))

C10_Witness ==
    /\ IsModelCall
    /\ slast.entry_before = Some(<<>>)
    /\ ScanFailed(fs, project_skills_dir)
    /\ fs.user.status = "unreadable"
    /\ project_skills_dir # None

(* The rendered block for an empty catalog, from its two parts. *)
EmptyCatalogBlock ==
    FormatTemplate(_format_skills_locations(project_skills_dir),
                   _format_skills_list(<<>>, project_skills_dir))

(* C11: a model call in a session whose state has no skills_metadata entry  *)
(* raises nothing, calls the handler, and sends the prompt an empty catalog *)
(* gives.                                                                   *)
C11_MissingKeyIsEmptyCatalog ==
    (IsModelCall /\ slast.entry_before = None) =>
        /\ slast.outcome = "returned"
        /\ slast.handler_calls = 1
        /\ slast.skills_metadata = <<>>
        /\ PromptOut = Some(IF Truthy(PromptIn)
                            THEN PromptIn[1] \o <<"\n\n">> \o EmptyCatalogBlock
                            ELSE EmptyCatalogBlock)

C11_Witness ==
    /\ IsModelCall
    /\ slast.entry_before = None
    /\ state[slast.sess] = None
    /\ Truthy(PromptIn)
    /\ project_skills_dir # None
    /\ fs.user.names # <<>>

(* s holds sub as a run of consecutive tokens *)
Contains(s, sub) ==
    \E i \in 1..(Len(s) - Len(sub) + 1) : SubSeq(s, i, i + Len(sub) - 1) = sub

(* C12: the block rendered for an empty catalog is not empty and names the  *)
(* user skills directory the middleware was constructed with and, when one  *)
(* is configured, the project skills directory.                             *)
C12_EmptyBlockNamesDirs ==
    (IsModelCall /\ slast.skills_metadata = <<>>) =>
        /\ PromptOut # None
        /\ PromptOut[1] # <<>>
        /\ Contains(PromptOut[1], USER_SKILLS_DIR)
        /\ project_skills_dir # None => Contains(PromptOut[1], project_skills_dir[1])

RECURSIVE ParseEntries(_, _, _)
(* A reader of the rendered text from token i on: each skill entry it meets, *)
(* with the label of the group it stands under.                              *)
ParseEntries(s, i, group) ==
    IF i > Len(s) THEN <<>>
    ELSE IF s[i] = "**User Skills:**" THEN ParseEntries(s, i + 1, "user")
    ELSE IF s[i] = "**Project Skills:**" THEN ParseEntries(s, i + 1, "project")
    ELSE IF s[i] = "- **" /\ i + 12 <= Len(s)
    THEN << [group |-> group, name |-> s[i + 1], description |-> s[i + 3],
             path |-> IF s[i + 5] = "  -> Read " /\ s[i + 6] = BQ /\ s[i + 11] = BQ
                      THEN SubSeq(s, i + 7, i + 10) ELSE <<>>] >>
             \o ParseEntries(s, i + 13, group)
    ELSE ParseEntries(s, i + 1, group)

(* The entries the outgoing prompt of the last model call shows. *)
Shown == IF PromptOut = None THEN <<>> ELSE ParseEntries(PromptOut[1], 1, "none")

(* The names of the catalog entries of one tier, in catalog order. *)
TierNames(catalog, source) ==
    LET tier == SelectSeq(catalog, LAMBDA s : s.source = source)
    IN [k \in 1..Len(tier) |-> [group |-> source, name |-> tier[k].name]]

(* C13: the rendered list shows the user-tier entries under the user label  *)
(* and the project-tier entries under the project label, the user group     *)
(* first, and each group in the catalog's order.                            *)
C13_GroupOrder ==
    IsModelCall =>
        [k \in 1..Len(Shown) |-> [group |-> Shown[k].group, name |-> Shown[k].name]]
            = TierNames(slast.skills_metadata, "user")
                \o TierNames(slast.skills_metadata, "project")

C13_Witness ==
    /\ IsModelCall
    /\ Len(slast.skills_metadata) = 2
    /\ slast.skills_metadata[1].source = "project"
    /\ slast.skills_metadata[2].source = "user"
    /\ Len(Shown) = 2
    /\ Shown[1].group = "user"

(* The last model call and the model call before it had the same catalog    *)
(* entry and the same incoming request.                                     *)
SameInputsAsPrev ==
    /\ slast.prev.valid
    /\ slast.prev.request = slast.request
    /\ slast.prev.entry = slast.entry_before

(* The last model call left the session state and the incoming request as   *)
(* they were, and repeated the outgoing prompt of an equal earlier call.    *)
RendersAlike ==
    /\ SameInputsAsPrev => slast.prev.handler_request = slast.handler_request
    /\ state[slast.sess] = slast.entry_before
    /\ slast.request_after = slast.request

(* C14 as stated: a model call with unchanged catalog, configuration and    *)
(* incoming prompt gives the identical outgoing prompt, and changes nothing *)
(* of the middleware, the session state or the incoming request.            *)
C14_RenderingPure ==
    IsModelCall => (RendersAlike /\ skills_call_count = slast.count_before)

(* C14 amended: the outgoing prompt is identical and session state and      *)
(* incoming request are untouched; of the middleware the call counter, and  *)
(* only it, changes: it goes up by one on every model call.                 *)
C14_RenderingPureButCounter ==
    IsModelCall => (RendersAlike /\ skills_call_count = slast.count_before + 1)

C14_Witness ==
    /\ IsModelCall
    /\ SameInputsAsPrev
    /\ Truthy(PromptIn)
    /\ slast.skills_metadata # <<>>
    /\ skills_call_count = 2

(* C20: for a non-empty catalog, every entry is shown exactly once with its *)
(* name, description and path, and nothing else is shown.                   *)
C20_EveryEntryOnce ==
    (IsModelCall /\ slast.skills_metadata # <<>>) =>
        /\ Len(Shown) = Len(slast.skills_metadata)
        /\ \A k \in 1..Len(slast.skills_metadata) :
              Cardinality({j \in 1..Len(Shown) :
                              /\ Shown[j].name = slast.skills_metadata[k].name
                              /\ Shown[j].description = slast.skills_metadata[k].description
                              /\ Shown[j].path = slast.skills_metadata[k].path}) = 1

C20_Witness ==
    /\ IsModelCall
    /\ Len(slast.skills_metadata) = 2
    /\ slast.skills_metadata[1].source # slast.skills_metadata[2].source
    /\ Len(Shown) = 2
    /\ Shown[1].path # <<>>

(* The records of the two tiers as they are on disk. *)
UserTier == TierRecords(fs.user, "user", USER_SKILLS_DIR)
ProjectTier ==
    IF project_skills_dir = None THEN <<>>
    ELSE TierRecords(fs.project, "project", project_skills_dir[1])

NamesOf(records) == {records[k].name : k \in 1..Len(records)}

(* This step is a session start: before_agent ran over the disk as it is. *)
SessionStarts == slast'.hook = "before_agent" /\ fs' = fs

(* The catalog the session start stored. *)
Built == state'[slast'.sess][1]

(* A name of both tiers has one entry, the project record, where the user   *)
(* record stood; project records of other names come after all user names.  *)
OverrideInPlace(catalog) ==
    /\ \A u \in 1..Len(UserTier), p \in 1..Len(ProjectTier) :
          UserTier[u].name = ProjectTier[p].name =>
              /\ Cardinality({k \in 1..Len(catalog) : catalog[k].name = UserTier[u].name}) = 1
              /\ u <= Len(catalog)
              /\ catalog[u] = ProjectTier[p]
              /\ catalog[u].source = "project"
    /\ \A j, k \in 1..Len(catalog) :
          (/\ catalog[j].name \in NamesOf(ProjectTier) \ NamesOf(UserTier)
           /\ catalog[k].name \in NamesOf(UserTier)) => k < j

(* C15: a name present in both tiers has exactly one catalog entry, the     *)
(* project record, at the user entry's position; project entries without a  *)
(* collision follow all user entries; user {A}, project {A, B} gives        *)
(* [A(project, "desc A2"), B(project, "desc B")].                           *)
C15_ProjectOverridesInPlace ==
    [][SessionStarts =>
          /\ state'[slast'.sess] # None
          /\ OverrideInPlace(Built)
          /\ (/\ NamesOf(UserTier) = {"A"}
              /\ Len(ProjectTier) = 2
              /\ ProjectTier[1].name = "A"
              /\ ProjectTier[2].name = "B") =>
                 /\ Len(Built) = 2
                 /\ Built[1].name = "A" /\ Built[1].source = "project"
                 /\ Built[1].description = "desc A2"
                 /\ Built[1].path = project_skills_dir[1] \o <<"/", "A", "/SKILL.md">>
                 /\ Built[2].name = "B" /\ Built[2].source = "project"
                 /\ Built[2].description = "desc B"]_vars

C15_Witness ==
    /\ slast.hook = "before_agent"
    /\ fs.user.names = <<"A">>
    /\ project_skills_dir # None
    /\ fs.project.names = <<"A", "B">>
    /\ state[slast.sess] # None
    /\ Len(state[slast.sess][1]) = 2
    /\ state[slast.sess][1][1].description = "desc A2"

(* C16: when the two tiers share no name, the catalog is the user records   *)
(* followed by the project records, each once.                              *)
C16_DisjointUnion ==
    [][(SessionStarts /\ NamesOf(UserTier) \cap NamesOf(ProjectTier) = {}) =>
          state'[slast'.sess] = Some(UserTier \o ProjectTier)]_vars

C16_Witness ==
    /\ slast.hook = "before_agent"
    /\ fs.user.names = <<"A">>
    /\ project_skills_dir # None
    /\ fs.project.names = <<"B">>
    /\ state[slast.sess] # None
    /\ Len(state[slast.sess][1]) = 2
    /\ state[slast.sess][1][1].source = "user"
    /\ state[slast.sess][1][2].source = "project"

(* C17: while the gate is open, a response with no tool call, or whose      *)
(* first tool call is not write_file whatever follows it, is returned as    *)
(* it is and leaves the gate open; one whose first tool call is write_file  *)
(* is returned as it is and closes the gate for the calls after it.         *)
C17_OnlyFirstToolCallTriggers ==
    (IsCall /\ ~last.done_before /\ HasShape(last.response)) =>
        /\ last.outcome = "returned"
        /\ last.returned = last.response
        /\ DONE_WRITE_FILE[last.inst] =
              (/\ Len(ToolCallsOf(last.response)) >= 1
               /\ ToolCallsOf(last.response)[1].name = "write_file")

C17_Witness ==
    /\ IsCall
    /\ ~last.done_before
    /\ HasShape(last.response)
    /\ Len(ToolCallsOf(last.response)) = 2
    /\ ToolCallsOf(last.response)[1].name = "read_file"
    /\ ToolCallsOf(last.response)[2].name = "write_file"
    /\ last.returned = last.response
    /\ ~DONE_WRITE_FILE[last.inst]

(* C18: before_agent, before_model, after_model, wrap_tool_call and         *)
(* after_agent leave the flag of every instance as it was, so an instance   *)
(* whose gate was closed when such a hook ran finds it closed at its next   *)
(* model call.                                                              *)
C18_OnlyModelCallChangesFlag ==
    [][/\ last'.hook \in OtherHooks => DONE_WRITE_FILE' = DONE_WRITE_FILE
       /\ (/\ last.hook \in OtherHooks
           /\ last.done_before
           /\ last'.hook = "wrap_model_call"
           /\ last'.inst = last.inst) => last'.done_before]_vars

C18_Witness ==
    /\ last.hook = "before_agent"
    /\ last.done_before
    /\ DONE_WRITE_FILE[last.inst]
    /\ inst_seen[last.inst]

(* C19: every model call of either middleware calls the handler exactly     *)
(* once, with the gate open or closed; NoSkillsMiddleware hands the handler *)
(* the request it was given, and SkillsMiddleware returns the response the  *)
(* handler gave.                                                            *)
C19_HandlerCalledOnce ==
    /\ IsCall => (last.handler_calls = 1 /\ last.handler_request = last.request)
    /\ IsModelCall => /\ slast.handler_calls = 1
                      /\ slast.outcome = "returned"
                      /\ slast.returned = slast.response

C19_Witness ==
    /\ IsCall
    /\ last.done_before
    /\ last.request.system_prompt # None
    /\ last.handler_calls = 1
    /\ IsModelCall
    /\ slast.handler_calls = 1
    /\ ToolCallsOf(slast.returned) # <<>>

====
